---- MODULE Spec2Model ----
(***************************************************************************)
(* AG Insights: the orchestrator (src/src/extension.ts), the quota poller  *)
(* (src/src/core/quota_manager.ts) and the status bar item                 *)
(* (src/src/ui/status_bar.ts) as one event-loop state machine.  Every      *)
(* action is one run-to-completion turn of the JavaScript event loop: a    *)
(* command, a timer callback, a configuration notification, or the         *)
(* resumption of an async function after its await.                        *)
(***************************************************************************)
EXTENDS Integers, Sequences, FiniteSets, TLC

VARIABLES
    target,          \* environment: what the locator would find now (<<>> or <<ProcessInfo>>)
    cfg,             \* the agInsights configuration section as getConfig() reads it
    isInitialized,   \* extension.ts: let isInitialized
    lastSnapshot,    \* extension.ts: let lastSnapshot (<<>> is undefined)
    initRuns,        \* initializeExtension invocations suspended at await detectProcessInfo
    retryTimers,     \* pending setTimeout(..., 10000) callbacks of initializeExtension
    reconnectTimers, \* pending setTimeout(..., 1000) callbacks of the onError handler
    reconnectOwed,   \* history: a reconnect-class error was handled and the locator has not been invoked since
    staleRuns,       \* history: how many of the initRuns started before the last reconnect command
    qm,              \* the QuotaManager object with its live interval timers and in-flight requests
    pc,              \* position of the resumed fetchQuota: "idle", or "catch" with exc pending
    exc,             \* the error caught by fetchQuota's catch clause (its message, as words)
    statusBar,       \* the StatusBarManager's item
    deactivated,     \* deactivate() has run and context.subscriptions are disposed
    loc,             \* one detectProcessInfo call followed step by step (LocatorSpec)
    parse            \* one application of parseResponse's functions (ParseSpec)

vars == <<target, cfg, isInitialized, lastSnapshot, initRuns, retryTimers,
          reconnectTimers, reconnectOwed, staleRuns, qm, pc, exc, statusBar, deactivated,
          loc, parse>>

\* The orchestrator and poller abstract the locator to its result (target)
\* and parseResponse to the body's shape, and leave these two alone.
detail == <<loc, parse>>

(***************************************************************************)
(* Bounds of the model.                                                    *)
(***************************************************************************)
\* Discovery runs, delayed discovery triggers and the fetch chain that the
\* user's commands and configuration changes may have outstanding at once.
MaxChains == 2

\* Lines in the output of ps aux | grep language_server.
MaxLines == 2

\* Entries of clientModelConfigs in a response.
MaxModels == 2

(***************************************************************************)
(* Values.                                                                 *)
(***************************************************************************)
ProcessInfos ==
    { [connectPort |-> 42100, csrfToken |-> "tok-a"],
      [connectPort |-> 42101, csrfToken |-> "tok-b"] }

Targets == {<<>>} \cup { <<p>> : p \in ProcessInfos }

Intervals == {60000, 120000}

Configs == [enabled : BOOLEAN, pollingInterval : Intervals]

(***************************************************************************)
(* Error messages are sequences of words; String.prototype.includes is the *)
(* search for a contiguous run of words.                                   *)
(***************************************************************************)
Includes(msg, pat) ==
    \E i \in 0..(Len(msg) - Len(pat)) :
        \A j \in 1..Len(pat) : msg[i + j] = pat[j]

(***************************************************************************)
(* The local server's answers.  A body is named by its shape:              *)
(*   "full"     JSON with userStatus whose model entries all carry a label *)
(*   "nolabel"  JSON with userStatus and a model entry that has a          *)
(*              quotaInfo but no label                                     *)
(*   "nouser"   JSON without userStatus                                    *)
(*   "html"     not JSON                                                   *)
(*   "echo404"  not JSON, a text that quotes "status 404"                  *)
(***************************************************************************)
Statuses == {200, 302, 403, 404, 500}

Bodies == {"full", "nolabel", "nouser", "html", "echo404"}

SocketErrors == {"ECONNREFUSED", "ECONNRESET"}

Outcomes ==
    [kind : {"response"}, status : Statuses, body : Bodies, code : {""}]
    \cup [kind : {"error"}, status : {0}, body : {""}, code : SocketErrors]
    \cup [kind : {"timeout"}, status : {0}, body : {""}, code : {""}]

IsJson(body) == body \in {"full", "nolabel", "nouser"}

BodyText(body) ==
    CASE body = "html" -> <<"<html>", "denied">>
      [] body = "echo404" -> <<"upstream", "returned", "status", "404">>
      [] OTHER -> <<"{json}">>

\* The message of the Error that node's https passes to req.on('error').
SocketErrorMessage(code) ==
    IF code = "ECONNREFUSED"
    THEN <<"connect", "ECONNREFUSED", "127.0.0.1">>
    ELSE <<"read", code>>

\* Request without the test of the status code.
Request_NoStatusTest(o) ==
    CASE o.kind = "error" ->
            [resolved |-> FALSE, data |-> "", message |-> SocketErrorMessage(o.code)]
      [] o.kind = "timeout" ->
            [resolved |-> FALSE, data |-> "", message |-> <<"Request", "timeout">>]
      [] OTHER ->
            IF IsJson(o.body)
            THEN [resolved |-> TRUE, data |-> o.body, message |-> <<>>]
            ELSE [resolved |-> FALSE, data |-> "",
                  message |-> <<"Invalid", "JSON", "response">>]

\* QuotaManager.request: how the promise settles for an outcome of the
\* exchange.  resolved: the parsed body; otherwise the rejection's message.
Request(o) ==
    CASE o.kind = "error" ->
            [resolved |-> FALSE, data |-> "", message |-> SocketErrorMessage(o.code)]
      [] o.kind = "timeout" ->
            [resolved |-> FALSE, data |-> "", message |-> <<"Request", "timeout">>]
      [] OTHER ->
            IF o.status # 0 /\ o.status >= 400
            THEN [resolved |-> FALSE, data |-> "",
                  message |-> <<"Request", "failed", "with", "status",
                                ToString(o.status), ":">> \o BodyText(o.body)]
            ELSE IF IsJson(o.body)
                 THEN [resolved |-> TRUE, data |-> o.body, message |-> <<>>]
                 ELSE [resolved |-> FALSE, data |-> "",
                       message |-> <<"Invalid", "JSON", "response">>]

\* QuotaManager.parseResponse as far as the state machine sees it: it throws
\* a TypeError on data.userStatus.planStatus when userStatus is missing, and
\* otherwise returns a snapshot assembled from the body.
ParseResponse(data) ==
    IF data = "nouser"
    THEN [threw |-> TRUE, snapshot |-> <<>>,
          message |-> <<"Cannot", "read", "properties", "of", "undefined",
                        "planStatus">>]
    ELSE [threw |-> FALSE, snapshot |-> <<[body |-> data]>>, message |-> <<>>]

(***************************************************************************)
(* StatusBarManager.  The item is shown when visible and not disposed;     *)
(* show() on a disposed item changes nothing.                              *)
(***************************************************************************)
NewStatusBar ==
    [visible |-> TRUE, text |-> "hubot", tooltip |-> "initial", disposed |-> FALSE]

ItemShow(sb) == IF sb.disposed THEN sb ELSE [sb EXCEPT !.visible = TRUE]

\* hide leaving the item as it is.
Hide_Nothing(sb) == sb

Hide(sb) == [sb EXCEPT !.visible = FALSE]

Dispose(sb) == [sb EXCEPT !.visible = FALSE, !.disposed = TRUE]

ShowError(sb, msg) == ItemShow([sb EXCEPT !.text = "error", !.tooltip = msg])

\* buildQuotaTable calls m.label.padEnd on every model of the snapshot.
BuildTooltipThrows(snapshot) == snapshot.body = "nolabel"

\* StatusBarManager.update: the item afterwards, and whether it threw.
Update(sb, snapshot, config) ==
    IF ~config.enabled
    THEN [sb |-> Hide(sb), threw |-> FALSE]
    ELSE IF BuildTooltipThrows(snapshot)
         THEN [sb |-> [sb EXCEPT !.text = "hubot"], threw |-> TRUE]
         ELSE [sb |-> ItemShow([sb EXCEPT !.text = "hubot", !.tooltip = "quota"]),
               threw |-> FALSE]

PadEndMessage == <<"Cannot", "read", "properties", "of", "undefined", "padEnd">>

(***************************************************************************)
(* QuotaManager.  qm holds the object's fields, the runtime's live         *)
(* setInterval timers (each named by its interval) and the https requests  *)
(* in flight, and a log of the current fetch: the callbacks it has         *)
(* invoked, whether a fetchQuota call was suppressed during it, and the    *)
(* HTTP status it was answered with (0: no response).  published is the    *)
(* snapshot last passed to the update callback (<<>>: none yet).           *)
(***************************************************************************)
NewQuotaManager ==
    [port |-> 0, csrfToken |-> "", pollingTimer |-> 0, isFetching |-> FALSE,
     intervals |-> <<>>, requests |-> <<>>, published |-> <<>>,
     log |-> [phase |-> "none", upd |-> 0, err |-> 0, skipped |-> FALSE, status |-> 0]]

\* clearInterval(handle): the first live timer with that handle goes.
RECURSIVE ClearInterval(_, _)
ClearInterval(timers, h) ==
    IF timers = <<>> THEN <<>>
    ELSE IF Head(timers) = h THEN Tail(timers)
    ELSE <<Head(timers)>> \o ClearInterval(Tail(timers), h)

\* init storing the port alone.
QmInit_PortOnly(q, p, token) == [q EXCEPT !.port = p]

QmInit(q, p, token) == [q EXCEPT !.port = p, !.csrfToken = token]

\* stopPolling dropping the handle without clearInterval.
StopPolling_HandleOnly(q) == [q EXCEPT !.pollingTimer = 0]

StopPolling(q) ==
    IF q.pollingTimer # 0
    THEN [q EXCEPT !.intervals = ClearInterval(@, q.pollingTimer),
                   !.pollingTimer = 0]
    ELSE q

\* request's options: the host, the configured port, and the token header.
RequestOptions(q) ==
    [hostname |-> "127.0.0.1", port |-> q.port, csrfToken |-> q.csrfToken]

\* FetchQuota without the isFetching test.
FetchQuota_NoGate(q) ==
    [q EXCEPT !.isFetching = TRUE,
              !.requests = Append(@, RequestOptions(q)),
              !.log = [phase |-> "running", upd |-> 0, err |-> 0, skipped |-> FALSE, status |-> 0]]

\* fetchQuota from the call to its await: the single-flight gate, then the
\* request is written to the socket.
FetchQuota(q) ==
    IF q.isFetching
    THEN [q EXCEPT !.log.skipped = TRUE]
    ELSE [q EXCEPT !.isFetching = TRUE,
                   !.requests = Append(@, RequestOptions(q)),
                   !.log = [phase |-> "running", upd |-> 0, err |-> 0, skipped |-> FALSE, status |-> 0]]

\* startPolling without the stopPolling at its head.
StartPolling_KeepsTimer(q, intervalMs) ==
    LET fetched == FetchQuota(q)
    IN  [fetched EXCEPT !.pollingTimer = intervalMs,
                        !.intervals = Append(@, intervalMs)]

StartPolling(q, intervalMs) ==
    LET stopped == StopPolling(q)
        fetched == FetchQuota(stopped)
    IN  [fetched EXCEPT !.pollingTimer = intervalMs,
                        !.intervals = Append(@, intervalMs)]

(***************************************************************************)
(* ProcessFinder (src/unnamed/part_001, lines 1-245).  A line of the ps     *)
(* output is named by what the locator reads in it: whether it contains    *)
(* the workspace path or folder name, whether it contains a port flag, the *)
(* and the number the port pattern captures (<<>>: the pattern does not     *)
(* match).  Of the selected line alone the locator reads more: whether its *)
(* second column is a number above 0, the characters that follow a token   *)
(* flag up to the next white space (<<>>: the line has no token flag), and *)
(* whether the line contains a UUID.                                       *)
(***************************************************************************)
DeclaredPorts == {5000, 65535}

\* The characters [a-zA-Z0-9-] among those of the token values below.
TokenCharacters == {"a", "b", "1", "-"}

\* Values of a token flag: of these characters alone, with another
\* character inside, and starting with another character.
TokenValues == { <<"a", "b", "-", "1">>, <<"a", "b", "_", "1">>, <<"_", "a", "b">> }

\* The first UUID of a line that contains one.
FirstUuid == "0f8fad5b-d9cb-469f-a165-70867728950e"

PsLines ==
    [workspace : BOOLEAN, flag : BOOLEAN, declared : {<<>>}]
    \cup [workspace : BOOLEAN, flag : {TRUE},
          declared : {<<p>> : p \in DeclaredPorts}]

LineDetails ==
    [pidOk : BOOLEAN, tokenFlag : {<<>>} \cup { <<v>> : v \in TokenValues }, uuid : BOOLEAN]

PsOutputs == UNION { [1..n -> PsLines] : n \in 1..MaxLines }

\* The port numbers that the pattern :(\d+)\s+ captures in lsof's output,
\* line by line.
LsofOutputs ==
    { <<>>, <<49152>>, <<5001, 49152>>, <<49152, 5000, 49152>>, <<443, 65534>> }

ProbeAnswers == {"status", "error", "timeout"}

\* lines.find(...) || '' twice: the first line of the workspace when a hint
\* is given, else the first line with a port flag (<<>>: none).
SelectTargetLine(lines, hint) ==
    LET byWorkspace == { i \in DOMAIN lines : lines[i].workspace }
        byFlag == { i \in DOMAIN lines : lines[i].flag }
        first(S) == CHOOSE i \in S : \A j \in S : i <= j
    IN  IF hint /\ byWorkspace # {} THEN <<lines[first(byWorkspace)]>>
        ELSE IF byFlag # {} THEN <<lines[first(byFlag)]>>
        ELSE <<>>

\* The capture of ([a-zA-Z0-9-]+) at the head of chars ("": no match).
RECURSIVE Captured(_)
Captured(chars) ==
    IF chars = <<>> \/ Head(chars) \notin TokenCharacters THEN ""
    ELSE Head(chars) \o Captured(Tail(chars))

\* The token being the placeholder whatever the line holds.
ExtractCsrfToken_Placeholder(details) == "antigravity-quota-monitor"

ExtractCsrfToken(details) ==
    LET tokenMatch == IF details.tokenFlag = <<>> THEN ""
                      ELSE Captured(details.tokenFlag[1])
    IN  IF tokenMatch # "" THEN tokenMatch
        ELSE IF details.uuid THEN FirstUuid
        ELSE "antigravity-quota-monitor"

\* Array.from(new Set(...)): the first occurrence of each element, in order.
RECURSIVE Unique(_)
Unique(ports) ==
    IF ports = <<>> THEN <<>>
    ELSE LET front == Unique(SubSeq(ports, 1, Len(ports) - 1))
             last == ports[Len(ports)]
         IN  IF \E i \in DOMAIN front : front[i] = last
             THEN front ELSE Append(front, last)

\* findPortsUsingLsof on a stdout: the ports above 1024, once each.
FindPortsUsingLsof(captured) ==
    Unique(SelectSeq(captured, LAMBDA port : port > 1024))

\* for (const p of offsets) if (!portsToTry.includes(p)) portsToTry.push(p)
RECURSIVE PushMissing(_, _)
PushMissing(portsToTry, offsets) ==
    IF offsets = <<>> THEN portsToTry
    ELSE LET p == Head(offsets)
         IN  PushMissing(IF \E i \in DOMAIN portsToTry : portsToTry[i] = p
                         THEN portsToTry ELSE Append(portsToTry, p),
                         Tail(offsets))

\* findConnectPort's uniquePorts.
UniquePorts(basePort, discoveredPorts) ==
    Unique(PushMissing(discoveredPorts,
                       <<basePort, basePort + 1, basePort - 1,
                         basePort + 2, basePort + 3>>))

\* https.request throws ERR_SOCKET_BAD_PORT on a port outside 0..65535.
ValidPort(port) == port \in 0..65535

\* The options naming the host localhost.
TestPortOptions_Localhost(port) == [hostname |-> "localhost", port |-> port]

\* testPort's request options.
TestPortOptions(port) == [hostname |-> "127.0.0.1", port |-> port]

(***************************************************************************)
(* JavaScript numbers.  The credit percentages are computed in IEEE 754    *)
(* double precision, round to nearest, ties to even.  A double other than  *)
(* 0 is kept as its sign, its significand, a sequence of Precision bits,   *)
(* lowest first and highest 1, and the exponent of its lowest bit:         *)
(* (-1)^neg * mant * 2^exp.  Naturals of any size are sequences of bits,   *)
(* lowest first, highest 1.                                                *)
(***************************************************************************)
Precision == 53

Zero == [neg |-> FALSE, mant |-> <<>>, exp |-> 0]

Zeros(n) == [i \in 1..n |-> 0]

Reverse(seq) == [i \in 1..Len(seq) |-> seq[Len(seq) + 1 - i]]

RECURSIVE Bits(_)
Bits(n) == IF n = 0 THEN <<>> ELSE <<n % 2>> \o Bits(n \div 2)

\* Without the zeros above the highest 1.
RECURSIVE Normalized(_)
Normalized(bits) ==
    IF bits = <<>> THEN <<>>
    ELSE IF bits[Len(bits)] = 1 THEN bits
    ELSE Normalized(SubSeq(bits, 1, Len(bits) - 1))

\* bits * k + carry
RECURSIVE TimesSmall(_, _, _)
TimesSmall(bits, k, carry) ==
    IF bits = <<>> THEN Bits(carry)
    ELSE LET v == Head(bits) * k + carry
         IN  <<v % 2>> \o TimesSmall(Tail(bits), k, v \div 2)

\* a + b + carry
RECURSIVE Plus(_, _, _)
Plus(a, b, carry) ==
    IF a = <<>> /\ b = <<>> THEN Bits(carry)
    ELSE LET x == IF a = <<>> THEN 0 ELSE Head(a)
             y == IF b = <<>> THEN 0 ELSE Head(b)
             v == x + y + carry
         IN  <<v % 2>> \o Plus(IF a = <<>> THEN <<>> ELSE Tail(a),
                                IF b = <<>> THEN <<>> ELSE Tail(b), v \div 2)

\* a - b - borrow for a >= b + borrow, with the zeros above left in place.
RECURSIVE Minus(_, _, _)
Minus(a, b, borrow) ==
    IF a = <<>> THEN <<>>
    ELSE LET y == IF b = <<>> THEN 0 ELSE Head(b)
             v == Head(a) - y - borrow
         IN  <<v % 2>> \o Minus(Tail(a), IF b = <<>> THEN <<>> ELSE Tail(b),
                                 IF v < 0 THEN 1 ELSE 0)

\* a <= b
RECURSIVE LessEq(_, _)
LessEq(a, b) ==
    IF Len(a) # Len(b) THEN Len(a) < Len(b)
    ELSE IF a = <<>> THEN TRUE
    ELSE IF a[Len(a)] # b[Len(b)] THEN a[Len(a)] < b[Len(b)]
    ELSE LessEq(SubSeq(a, 1, Len(a) - 1), SubSeq(b, 1, Len(b) - 1))

\* Long division of a dividend given highest bit first by m, starting from
\* the remainder rem: the quotient, highest bit first, and the remainder.
\* The dividend is divided half by half.
RECURSIVE LongDivide(_, _, _)
LongDivide(dividend, m, rem) ==
    IF dividend = <<>> THEN [quotient |-> <<>>, remainder |-> rem]
    ELSE IF Len(dividend) = 1
    THEN LET r == 2 * rem + dividend[1]
             q == IF r >= m THEN 1 ELSE 0
         IN  [quotient |-> <<q>>, remainder |-> r - q * m]
    ELSE LET half == Len(dividend) \div 2
             high == LongDivide(SubSeq(dividend, 1, half), m, rem)
             low == LongDivide(SubSeq(dividend, half + 1, Len(dividend)), m,
                               high.remainder)
         IN  [quotient |-> high.quotient \o low.quotient, remainder |-> low.remainder]

\* The double nearest to n * 2^exp (+ a little more when sticky), n > 0,
\* with the sign neg.
RoundBits(neg, n, sticky, exp) ==
    LET len == Len(n)
    IN  IF len <= Precision
        THEN [neg |-> neg, mant |-> Zeros(Precision - len) \o n,
              exp |-> exp - (Precision - len)]
        ELSE LET drop == len - Precision
                 kept == SubSeq(n, drop + 1, len)
                 guard == n[drop]
                 rest == sticky \/ \E i \in 1..(drop - 1) : n[i] = 1
                 up == guard = 1 /\ (rest \/ kept[1] = 1)
                 rounded == IF up THEN Plus(kept, <<1>>, 0) ELSE kept
             IN  IF Len(rounded) > Precision
                 THEN [neg |-> neg, mant |-> Tail(rounded), exp |-> exp + drop + 1]
                 ELSE [neg |-> neg, mant |-> rounded, exp |-> exp + drop]

\* x / m for integers x and m > 0.
FloatDivide(x, m) ==
    IF x = 0 THEN Zero
    ELSE LET k == Precision + 2 + Len(Bits(m))
             magnitude == IF x < 0 THEN -x ELSE x
             d == LongDivide(Reverse(Bits(magnitude)) \o Zeros(k), m, 0)
         IN  RoundBits(x < 0, Normalized(Reverse(d.quotient)), d.remainder # 0, -k)

\* f * k for a natural k > 0.
FloatTimes(f, k) ==
    IF f = Zero THEN Zero
    ELSE RoundBits(f.neg, TimesSmall(f.mant, k, 0), FALSE, f.exp)

\* f + g
FloatPlus(f, g) ==
    IF f = Zero THEN g
    ELSE IF g = Zero THEN f
    ELSE LET e == IF f.exp < g.exp THEN f.exp ELSE g.exp
             a == Zeros(f.exp - e) \o f.mant
             b == Zeros(g.exp - e) \o g.mant
         IN  IF f.neg = g.neg THEN RoundBits(f.neg, Plus(a, b, 0), FALSE, e)
             ELSE IF a = b THEN Zero
             ELSE IF LessEq(a, b)
                  THEN RoundBits(g.neg, Normalized(Minus(b, a, 0)), FALSE, e)
                  ELSE RoundBits(f.neg, Normalized(Minus(a, b, 0)), FALSE, e)

\* The double of a natural n > 0 below 2^Precision.
FloatOf(n) == RoundBits(FALSE, Bits(n), FALSE, 0)

(***************************************************************************)
(* QuotaManager.parseResponse and formatTime (quota_manager.ts, lines      *)
(* 136-258).  An absent JSON field is <<>> and a present one <<value>>.    *)
(* Fractions are counted in ten-thousandths, so 0.001 is 10 and 1 is       *)
(* 10000, and a percentage of ten-thousandths is kept as their number      *)
(* times 100.  Times are in milliseconds.                                  *)
(***************************************************************************)
\* formatTime with the whole minutes that have passed instead of begun.
FormatTime_Floor(ms, resetTime) ==
    IF ms <= 0 THEN [text |-> "Ready", date |-> <<>>]
    ELSE LET mins == ms \div 60000
             duration ==
               IF mins < 60 THEN ToString(mins) \o "m"
               ELSE IF mins < 24 * 60
                    THEN ToString(mins \div 60) \o "h " \o ToString(mins % 60) \o "m"
                    ELSE ToString(mins \div (60 * 24)) \o "d "
                         \o ToString((mins % (60 * 24)) \div 60) \o "h"
         IN  [text |-> duration, date |-> <<resetTime>>]

\* formatTime: 'Ready', or the duration followed by the date of resetTime in
\* parentheses.  Math.ceil(ms / 60000) of a whole ms above 0.
FormatTime(ms, resetTime) ==
    IF ms <= 0 THEN [text |-> "Ready", date |-> <<>>]
    ELSE LET mins == (ms + 59999) \div 60000
             duration ==
               IF mins < 60 THEN ToString(mins) \o "m"
               ELSE IF mins < 24 * 60
                    THEN ToString(mins \div 60) \o "h " \o ToString(mins % 60) \o "m"
                    ELSE ToString(mins \div (60 * 24)) \o "d "
                         \o ToString((mins % (60 * 24)) \div 60) \o "h"
         IN  [text |-> duration, date |-> <<resetTime>>]

\* The prompt credits with the two percentages exchanged.
PromptCredits_Exchanged(planStatus) ==
    IF planStatus = <<>> THEN <<>>
    ELSE LET planInfo == planStatus[1].planInfo
             availableCredits == planStatus[1].availablePromptCredits
         IN  IF planInfo # <<>> /\ availableCredits # <<>>
                /\ planInfo[1].monthlyPromptCredits # <<>>
                /\ planInfo[1].monthlyPromptCredits[1] > 0
             THEN LET monthly == planInfo[1].monthlyPromptCredits[1]
                      available == availableCredits[1]
                  IN  <<[available |-> available, monthly |-> monthly,
                         usedPercentage |->
                           FloatTimes(FloatDivide(available, monthly), 100),
                         remainingPercentage |->
                           FloatTimes(FloatDivide(monthly - available, monthly), 100)]>>
             ELSE <<>>

\* parseResponse's promptCredits (<<>>: undefined) for planStatus with
\* credits that are numbers; Number(undefined) is NaN and not above 0.
PromptCredits(planStatus) ==
    IF planStatus = <<>> THEN <<>>
    ELSE LET planInfo == planStatus[1].planInfo
             availableCredits == planStatus[1].availablePromptCredits
         IN  IF planInfo # <<>> /\ availableCredits # <<>>
                /\ planInfo[1].monthlyPromptCredits # <<>>
                /\ planInfo[1].monthlyPromptCredits[1] > 0
             THEN LET monthly == planInfo[1].monthlyPromptCredits[1]
                      available == availableCredits[1]
                  IN  <<[available |-> available, monthly |-> monthly,
                         usedPercentage |->
                           FloatTimes(FloatDivide(monthly - available, monthly), 100),
                         remainingPercentage |->
                           FloatTimes(FloatDivide(available, monthly), 100)]>>
             ELSE <<>>

\* The mapping of one model entry that has a quotaInfo.  rawFraction is
\* always a number, so its tests against undefined are kept as the code has
\* them: <<>> would be undefined.
ModelQuota(m, now) ==
    LET quotaInfo == m.quotaInfo[1]
        diff == quotaInfo.resetTime - now
        rawFraction == IF quotaInfo.remainingFraction # <<>>
                       THEN <<quotaInfo.remainingFraction[1]>>
                       ELSE <<0>>
        remainingFraction == IF rawFraction # <<>> THEN rawFraction[1] ELSE 0
    IN  [label |-> m.label,
         remainingFraction |-> remainingFraction,
         remainingPercentage |-> remainingFraction * 100,
         isExhausted |-> (rawFraction # <<>> /\ rawFraction[1] <= 10)
                         \/ quotaInfo.status = "EXHAUSTED",
         isNA |-> rawFraction = <<>> /\ quotaInfo.status # "EXHAUSTED",
         resetTime |-> quotaInfo.resetTime,
         timeUntilReset |-> diff,
         timeUntilResetFormatted |-> FormatTime(diff, quotaInfo.resetTime)]

\* The mapped entries in the opposite order.
Models_Reversed(rawModels, now) ==
    LET withQuota == SelectSeq(rawModels, LAMBDA m : m.quotaInfo # <<>>)
    IN  [i \in 1..Len(withQuota) |-> ModelQuota(withQuota[Len(withQuota) + 1 - i], now)]

\* rawModels.filter(m => m.quotaInfo).map(...)
Models(rawModels, now) ==
    LET withQuota == SelectSeq(rawModels, LAMBDA m : m.quotaInfo # <<>>)
    IN  [i \in 1..Len(withQuota) |-> ModelQuota(withQuota[i], now)]

\* a || b on values that are undefined (<<>>) or a string (<<s>>).
OrElse(a, b) == IF a # <<>> /\ a[1] # "" THEN a ELSE b

\* object?.email for an object that is undefined (<<>>) or has an email
\* that is undefined or a string.
EmailOf(object) == IF object = <<>> THEN <<>> ELSE object[1].email

\* object?.user?.email
UserEmailOf(object) == IF object = <<>> THEN <<>> ELSE EmailOf(object[1].user)

\* The lookup with user and userProfile in the other order.
Email_ProfileFirst(data) ==
    LET userStatus == data.userStatus
    IN  OrElse(userStatus.email,
        OrElse(EmailOf(userStatus.userProfile),
        OrElse(EmailOf(userStatus.user),
        OrElse(EmailOf(userStatus.user_profile),
        OrElse(EmailOf(data.user),
        OrElse(EmailOf(data.userProfile),
               UserEmailOf(data.user_status)))))))

\* parseResponse's email: the chain of || over the seven paths.
Email(data) ==
    LET userStatus == data.userStatus
    IN  OrElse(userStatus.email,
        OrElse(EmailOf(userStatus.user),
        OrElse(EmailOf(userStatus.userProfile),
        OrElse(EmailOf(userStatus.user_profile),
        OrElse(EmailOf(data.user),
        OrElse(EmailOf(data.userProfile),
               UserEmailOf(data.user_status)))))))

\* parseResponse on a whole response: it throws a TypeError on
\* data.userStatus.planStatus when userStatus is missing, and otherwise
\* returns the snapshot (without its timestamp).
QuotaSnapshot(data, now) ==
    IF data.userStatus = <<>>
    THEN [threw |-> TRUE, snapshot |-> <<>>]
    ELSE LET userStatus == data.userStatus[1]
             configData == userStatus.cascadeModelConfigData
             rawModels == IF configData = <<>> \/ configData[1].clientModelConfigs = <<>>
                          THEN <<>>
                          ELSE configData[1].clientModelConfigs[1]
         IN  [threw |-> FALSE,
              snapshot |-> <<[email |-> Email([data EXCEPT !.userStatus = userStatus]),
                              promptCredits |-> PromptCredits(userStatus.planStatus),
                              models |-> Models(rawModels, now)]>>]

\* getProgressBar throws a RangeError when String.prototype.repeat gets a
\* count below 0: filledBars = Math.round((percentage / 100) * 10).
GetProgressBarThrows(percentage) ==
    LET filledBars == (2 * percentage + 100000) \div 200000
    IN  filledBars < 0 \/ 10 - filledBars < 0

\* buildQuotaTable throws on such a percentage and on m.label.padEnd of a
\* model without a label (<<>>).
BuildQuotaTableThrows(models) ==
    \E i \in DOMAIN models :
        \/ GetProgressBarThrows(models[i].remainingPercentage)
        \/ models[i].label = <<>>

\* fetchQuota's try block on a parsed body with monitoring enabled: the
\* snapshot passed to the update callback (<<>>: none) and whether the
\* catch clause is reached, from parseResponse or from the display.
TryBlock(data, now) ==
    LET parsed == QuotaSnapshot(data, now)
    IN  [published |-> parsed.snapshot,
         error |-> parsed.threw
                   \/ BuildQuotaTableThrows(parsed.snapshot[1].models)]

(***************************************************************************)
(* The inputs of these functions.                                          *)
(***************************************************************************)
MonthlyCredits == {0, 3, 500, 50000}

AvailableCredits == {0, 1, 7, 13, 14, 250, 500}

PlanStatuses ==
    {<<>>}
    \cup { <<[planInfo |-> planInfo, availablePromptCredits |-> available]>> :
             planInfo \in {<<>>, <<[monthlyPromptCredits |-> <<>>]>>}
                           \cup { <<[monthlyPromptCredits |-> <<m>>]>> : m \in MonthlyCredits },
             available \in {<<>>} \cup { <<a>> : a \in AvailableCredits } }

Fractions == {-5000, 0, 10, 11, 5000, 10000, 15000}

QuotaStatuses == {"", "EXHAUSTED", "AVAILABLE"}

RawModels ==
    [label : {<<"Gemini">>}, quotaInfo : {<<>>}]
    \cup [label : {<<"Gemini">>},
          quotaInfo : { <<q>> : q \in [remainingFraction : {<<>>} \cup { <<f>> : f \in Fractions },
                                       status : QuotaStatuses,
                                       resetTime : {5400000}] }]

Durations ==
    { -60000, -1, 0, 1, 59999, 60000, 60001, 2700000, 3540000, 3540001,
      3599999, 3600000, 3600001, 5400000, 86340000, 86340001, 86399999,
      86400000, 90000000, 172800000, 2000000000 }

\* An email at a path is undefined, empty, or the address named after the
\* path; the object of a path is undefined or has such an email.
Emails(name) == {<<>>, <<"">>, <<name>>}

Holders(name) == {<<>>} \cup { <<[email |-> e]>> : e \in Emails(name) \ {<<"">>} }

EmailResponses ==
    [userStatus : [email : Emails("email"),
                   user : Holders("user"),
                   userProfile : Holders("userProfile"),
                   user_profile : Holders("user_profile")],
     user : Holders("root.user"),
     userProfile : Holders("root.userProfile"),
     user_status : {<<>>} \cup { <<[user |-> u]>> : u \in Holders("user_status.user") }]

\* Whole responses: with or without userStatus, plan data, model
\* configuration data and its list; the entries with one of two labels,
\* with or without quotaInfo, with or without a remainingFraction.
ResponseModels ==
    [label : {<<"Gemini">>, <<"Claude">>}, quotaInfo : {<<>>}]
    \cup [label : {<<"Gemini">>, <<"Claude">>},
          quotaInfo : { <<q>> : q \in [remainingFraction : {<<>>, <<5000>>, <<15000>>},
                                       status : {""},
                                       resetTime : {5400000}] }]

ResponsePlans ==
    { <<>>,
      <<[planInfo |-> <<>>, availablePromptCredits |-> <<250>>]>>,
      <<[planInfo |-> <<[monthlyPromptCredits |-> <<500>>]>>,
         availablePromptCredits |-> <<250>>]>> }

Responses ==
    [userStatus : {<<>>}, user : {<<>>}, userProfile : {<<>>}, user_status : {<<>>}]
    \cup [userStatus :
             { <<u>> : u \in
                 [planStatus : ResponsePlans,
                  cascadeModelConfigData :
                      {<<>>, <<[clientModelConfigs |-> <<>>]>>}
                      \cup { <<[clientModelConfigs |-> <<list>>]>> :
                                list \in UNION { [1..n -> ResponseModels] : n \in 0..MaxModels } },
                  email : {<<>>, <<"email">>},
                  user : {<<>>}, userProfile : {<<>>}, user_profile : {<<>>}] },
           user : {<<>>}, userProfile : {<<>>}, user_status : {<<>>}]

ParseInputs ==
    [stage : {"input"}, kind : {"credits"}, input : PlanStatuses, output : {<<>>}]
    \cup [stage : {"input"}, kind : {"response"},
          input : [data : Responses, now : {0}], output : {<<>>}]
    \cup [stage : {"input"}, kind : {"email"}, input : EmailResponses, output : {<<>>}]
    \cup [stage : {"input"}, kind : {"models"},
          input : [rawModels : UNION { [1..n -> RawModels] : n \in 1..MaxModels },
                   now : {0}],
          output : {<<>>}]
    \cup [stage : {"input"}, kind : {"time"},
          input : { [now |-> now, resetTime |-> now + d] : now \in {0, 1000}, d \in Durations },
          output : {<<>>}]

NoParse == [stage |-> "none", kind |-> "none", input |-> <<>>, output |-> <<>>]

(***************************************************************************)
(* One call of detectProcessInfo, from await to await.  loc.pc is "ps"     *)
(* (awaiting the process list), "lsof" (awaiting findPortsUsingLsof),     *)
(* "probe" (awaiting testPort of the last entry of loc.probes), "done"     *)
(* (the promise is settled) or "returned" (initializeExtension has         *)
(* resumed).  hint says a workspacePath was given, and listed what the     *)
(* process list had: a line of the workspace, a line with a port flag, a   *)
(* line with a port flag and its number.                                   *)
(* psFailed, caught and the probes' answers record what happened; rejected *)
(* says the promise was rejected instead of resolved.                      *)
(***************************************************************************)
NewLocatorRun ==
    [pc |-> "ps", psFailed |-> FALSE, hint |-> FALSE,
     listed |-> [workspace |-> FALSE, flag |-> FALSE, declared |-> FALSE],
     targetLine |-> <<>>, details |-> <<>>,
     extensionPort |-> 0,
     discoveredPorts |-> <<>>, portsToTry |-> <<>>, probes |-> <<>>,
     result |-> <<>>, caught |-> FALSE, rejected |-> FALSE]

\* return null
ReturnNull(l) == [l EXCEPT !.pc = "done", !.result = <<>>]

\* The exception leaving detectProcessInfo.
OnException_Rethrow(l) ==
    [l EXCEPT !.pc = "done", !.caught = TRUE, !.rejected = TRUE]

\* detectProcessInfo's catch (error) clause: log and return null.
OnException(l) == [l EXCEPT !.pc = "done", !.result = <<>>, !.caught = TRUE]

\* findConnectPort's loop at its next candidate: the loop ends and
\* detectProcessInfo returns null, or testPort issues the request, or
\* https.request throws inside the promise executor and the rejection
\* reaches detectProcessInfo's catch clause.
NextProbe(l) ==
    LET next == Len(l.probes) + 1
    IN  IF next > Len(l.portsToTry) THEN ReturnNull(l)
        ELSE IF ~ValidPort(l.portsToTry[next]) THEN OnException(l)
        ELSE [l EXCEPT !.pc = "probe",
                       !.probes = Append(@, [options |-> TestPortOptions(l.portsToTry[next]),
                                             answer |-> "pending"])]

FindConnectPort(l, discoveredPorts) ==
    NextProbe([l EXCEPT !.discoveredPorts = discoveredPorts,
                        !.portsToTry = UniquePorts(l.extensionPort, discoveredPorts)])

\* detectProcessInfo from the process list to its next await.
AfterPs(l, lines, hint, details) ==
    LET t == SelectTargetLine(lines, hint)
        selected == [l EXCEPT !.hint = hint,
                              !.listed = [workspace |-> \E i \in DOMAIN lines : lines[i].workspace,
                                          flag |-> \E i \in DOMAIN lines : lines[i].flag,
                                          declared |-> \E i \in DOMAIN lines :
                                                          lines[i].declared # <<>>],
                              !.targetLine = t]
    IN  IF t = <<>> THEN ReturnNull(selected)
        ELSE IF t[1].declared = <<>> THEN ReturnNull(selected)
        ELSE LET matched == [selected EXCEPT !.extensionPort = t[1].declared[1],
                                             !.details = <<details>>]
             IN  IF details.pidOk
                 THEN [matched EXCEPT !.pc = "lsof"]
                 ELSE FindConnectPort(matched, <<>>)

\* testPort resolves: true on a response, false on an error or the timeout.
AfterProbe(l, answer) ==
    LET n == Len(l.probes)
        settled == [l EXCEPT !.probes[n].answer = answer]
        connectPort == l.probes[n].options.port
    IN  IF answer = "status"
        THEN IF connectPort = 0 THEN ReturnNull(settled)
             ELSE [settled EXCEPT
                     !.pc = "done",
                     !.result = <<[extensionPort |-> l.extensionPort,
                                   connectPort |-> connectPort,
                                   csrfToken |-> ExtractCsrfToken(l.details[1])]>>]
        ELSE NextProbe(settled)

(***************************************************************************)
(* The orchestrator (extension.ts).                                        *)
(***************************************************************************)
\* What is outstanding: suspended discovery runs, delayed discovery
\* triggers, and the fetch chain (a request, its catch clause or a timer).
Chains(runs, retries, reconnects, q, p) ==
    runs + retries + reconnects
    + (IF q.requests # <<>> \/ q.intervals # <<>> \/ p = "catch" THEN 1 ELSE 0)

\* The user's commands and settings changes are taken only while they leave
\* at most MaxChains outstanding.
WithinBounds ==
    Chains(initRuns', retryTimers', reconnectTimers', qm', pc') <= MaxChains

\* initializeExtension from the call to its await: with initialized false it
\* invokes the locator and suspends.
InitializeExtension(initialized) ==
    IF initialized
    THEN UNCHANGED <<initRuns, reconnectOwed>>
    ELSE /\ initRuns' = initRuns + 1
         /\ reconnectOwed' = FALSE

\* The test taking any status line for a reconnect signature.
IsReconnectError_AnyStatus(msg) ==
    \/ Includes(msg, <<"ECONNREFUSED">>)
    \/ Includes(msg, <<"status">>)

\* The onError handler's test of the message.
IsReconnectError(msg) ==
    \/ Includes(msg, <<"ECONNREFUSED">>)
    \/ Includes(msg, <<"status", "403">>)
    \/ Includes(msg, <<"status", "404">>)

\* The handler showing the snapshot without storing it.
OnUpdate_DisplayOnly(last, sb, snapshot, config) ==
    LET shown == Update(sb, snapshot, config)
    IN  [lastSnapshot |-> last, sb |-> shown.sb, threw |-> shown.threw]

\* The onUpdate handler: lastSnapshot = snapshot, then statusBar.update, which
\* may throw.
OnUpdate(last, sb, snapshot, config) ==
    LET shown == Update(sb, snapshot, config)
    IN  [lastSnapshot |-> <<snapshot>>, sb |-> shown.sb, threw |-> shown.threw]

\* init and startPolling whatever the configuration says.
Connect_AlwaysPolls(q, processInfo, config) ==
    StartPolling(QmInit(q, processInfo.connectPort, processInfo.csrfToken),
                 config.pollingInterval)

\* initializeExtension on a ProcessInfo: init, and startPolling if enabled.
Connect(q, processInfo, config) ==
    LET configured == QmInit(q, processInfo.connectPort, processInfo.csrfToken)
    IN  IF config.enabled
        THEN StartPolling(configured, config.pollingInterval)
        ELSE configured

\* The module state when activate has run: the first discovery is in flight.
Activated ==
    /\ isInitialized = FALSE
    /\ lastSnapshot = <<>>
    /\ initRuns = 1
    /\ retryTimers = 0
    /\ reconnectTimers = 0
    /\ reconnectOwed = FALSE
    /\ staleRuns = 0
    /\ qm = NewQuotaManager
    /\ pc = "idle"
    /\ exc = <<>>
    /\ statusBar = NewStatusBar
    /\ deactivated = FALSE
    /\ loc = NewLocatorRun

Init ==
    /\ target \in Targets
    /\ cfg \in Configs
    /\ Activated
    /\ parse = NoParse

\* The target process starts, stops or restarts on another port.
EnvChange ==
    /\ pc = "idle"
    /\ target' \in Targets \ {target}
    /\ UNCHANGED <<cfg, isInitialized, lastSnapshot, initRuns, retryTimers,
                   reconnectTimers, reconnectOwed, qm, pc, exc, statusBar,
                   deactivated>>
    /\ UNCHANGED <<staleRuns, loc, parse>>

\* agInsights.refresh
CmdRefresh ==
    /\ pc = "idle"
    /\ ~deactivated
    /\ IF isInitialized
       THEN /\ qm' = FetchQuota(qm)
            /\ UNCHANGED <<initRuns, reconnectOwed>>
       ELSE /\ InitializeExtension(isInitialized)
            /\ UNCHANGED qm
    /\ UNCHANGED <<target, cfg, isInitialized, lastSnapshot, retryTimers,
                   reconnectTimers, pc, exc, statusBar, deactivated>>
    /\ WithinBounds
    /\ UNCHANGED <<staleRuns, loc, parse>>

\* agInsights.reconnect
CmdReconnect ==
    /\ pc = "idle"
    /\ ~deactivated
    /\ isInitialized' = FALSE
    /\ qm' = StopPolling(qm)
    /\ InitializeExtension(FALSE)
    /\ staleRuns' = initRuns
    /\ UNCHANGED <<target, cfg, lastSnapshot, retryTimers, reconnectTimers,
                   pc, exc, statusBar, deactivated>>
    /\ WithinBounds
    /\ UNCHANGED detail

\* The configuration changes to newConfig and onConfigChange's callback runs.
\* An exception of statusBar.update ends the callback.
ConfigChange(newConfig) ==
    /\ pc = "idle"
    /\ ~deactivated
    /\ cfg' = newConfig
    /\ IF newConfig.enabled
       THEN IF isInitialized
            THEN /\ qm' = StartPolling(qm, newConfig.pollingInterval)
                 /\ UNCHANGED <<initRuns, reconnectOwed>>
            ELSE /\ InitializeExtension(isInitialized)
                 /\ UNCHANGED qm
       ELSE /\ qm' = StopPolling(qm)
            /\ UNCHANGED <<initRuns, reconnectOwed>>
    /\ LET hidden == IF newConfig.enabled THEN statusBar ELSE Hide(statusBar)
       IN  statusBar' = IF lastSnapshot # <<>> /\ newConfig.enabled
                        THEN Update(hidden, lastSnapshot[1], newConfig).sb
                        ELSE hidden
    /\ UNCHANGED <<target, isInitialized, lastSnapshot, retryTimers,
                   reconnectTimers, pc, exc, deactivated>>
    /\ WithinBounds
    /\ UNCHANGED <<staleRuns, loc, parse>>

\* Any of the runs in flight may be the one that resumes: one that started
\* before the last reconnect command, or one that started since.
RunResumes ==
    staleRuns' \in { n \in {staleRuns - 1, staleRuns} :
                        IF n = staleRuns THEN initRuns > staleRuns ELSE staleRuns > 0 }

\* detectProcessInfo resolves to a ProcessInfo and initializeExtension resumes.
DiscoveryFound ==
    /\ pc = "idle"
    /\ initRuns > 0
    /\ target # <<>>
    /\ initRuns' = initRuns - 1
    /\ RunResumes
    /\ qm' = Connect(qm, target[1], cfg)
    /\ isInitialized' = TRUE
    /\ UNCHANGED <<target, cfg, lastSnapshot, retryTimers, reconnectTimers,
                   reconnectOwed, pc, exc, statusBar, deactivated>>
    /\ UNCHANGED detail

\* detectProcessInfo resolves to null and initializeExtension resumes.
DiscoveryNotFound ==
    /\ pc = "idle"
    /\ initRuns > 0
    /\ target = <<>>
    /\ initRuns' = initRuns - 1
    /\ RunResumes
    /\ statusBar' = ShowError(statusBar, "Process not found")
    /\ retryTimers' = retryTimers + 1
    /\ UNCHANGED <<target, cfg, isInitialized, lastSnapshot, reconnectTimers,
                   reconnectOwed, qm, pc, exc, deactivated>>
    /\ UNCHANGED detail

\* setTimeout(() => { if (!isInitialized) initializeExtension(); }, 10000)
RetryTimerFires ==
    /\ pc = "idle"
    /\ retryTimers > 0
    /\ retryTimers' = retryTimers - 1
    /\ InitializeExtension(isInitialized)
    /\ UNCHANGED <<target, cfg, isInitialized, lastSnapshot, reconnectTimers,
                   qm, pc, exc, statusBar, deactivated>>
    /\ UNCHANGED <<staleRuns, loc, parse>>

\* setTimeout(() => initializeExtension(), 1000)
ReconnectTimerFires ==
    /\ pc = "idle"
    /\ reconnectTimers > 0
    /\ reconnectTimers' = reconnectTimers - 1
    /\ InitializeExtension(isInitialized)
    /\ UNCHANGED <<target, cfg, isInitialized, lastSnapshot, retryTimers,
                   qm, pc, exc, statusBar, deactivated>>
    /\ UNCHANGED <<staleRuns, loc, parse>>

\* A live setInterval timer fires: () => this.fetchQuota()
PollTick ==
    /\ pc = "idle"
    /\ qm.intervals # <<>>
    /\ qm' = FetchQuota(qm)
    /\ UNCHANGED <<target, cfg, isInitialized, lastSnapshot, initRuns,
                   retryTimers, reconnectTimers, reconnectOwed, pc, exc,
                   statusBar, deactivated>>
    /\ UNCHANGED <<staleRuns, loc, parse>>

\* The request promise settles with outcome o and fetchQuota resumes in its
\* try block: parseResponse, then the update callback (the onUpdate
\* handler), then finally.  An exception moves it to the catch clause.
RequestSettles(o) ==
    /\ pc = "idle"
    /\ qm.requests # <<>>
    /\ LET r == Request(o)
           parsed == ParseResponse(r.data)
           sent == [qm EXCEPT !.requests = Tail(@), !.log.status = o.status]
       IN  IF ~r.resolved \/ parsed.threw
           THEN /\ pc' = "catch"
                /\ exc' = IF r.resolved THEN parsed.message ELSE r.message
                /\ qm' = sent
                /\ UNCHANGED <<lastSnapshot, statusBar>>
           ELSE LET shown == OnUpdate(lastSnapshot, statusBar, parsed.snapshot[1], cfg)
                    called == [sent EXCEPT !.log.upd = @ + 1,
                                           !.published = parsed.snapshot]
                IN  /\ lastSnapshot' = shown.lastSnapshot
                    /\ statusBar' = shown.sb
                    /\ IF shown.threw
                       THEN /\ pc' = "catch"
                            /\ exc' = PadEndMessage
                            /\ qm' = called
                       ELSE /\ qm' = [called EXCEPT !.isFetching = FALSE,
                                                    !.log.phase = "done"]
                            /\ UNCHANGED <<pc, exc>>
    /\ UNCHANGED <<target, cfg, isInitialized, initRuns, retryTimers,
                   reconnectTimers, reconnectOwed, deactivated>>
    /\ UNCHANGED <<staleRuns, loc, parse>>

\* The catch clause without the finally block.
CatchClause_NoFinally ==
    /\ pc = "catch"
    /\ LET called == [qm EXCEPT !.log.err = @ + 1]
       IN  IF IsReconnectError(exc)
           THEN /\ isInitialized' = FALSE
                /\ qm' = StopPolling(called)
                /\ reconnectTimers' = reconnectTimers + 1
                /\ reconnectOwed' = TRUE
                /\ UNCHANGED statusBar
           ELSE /\ statusBar' = ShowError(statusBar, "Fetch failed")
                /\ qm' = called
                /\ UNCHANGED <<isInitialized, reconnectTimers, reconnectOwed>>
    /\ pc' = "idle"
    /\ exc' = <<>>
    /\ UNCHANGED <<target, cfg, lastSnapshot, initRuns, retryTimers, deactivated>>
    /\ UNCHANGED <<staleRuns, loc, parse>>

\* fetchQuota's catch clause: the error callback (the onError handler), then
\* finally.
CatchClause ==
    /\ pc = "catch"
    /\ LET called == [qm EXCEPT !.log.err = @ + 1]
           done == [called EXCEPT !.isFetching = FALSE, !.log.phase = "done"]
       IN  IF IsReconnectError(exc)
           THEN /\ isInitialized' = FALSE
                /\ qm' = StopPolling(done)
                /\ reconnectTimers' = reconnectTimers + 1
                /\ reconnectOwed' = TRUE
                /\ UNCHANGED statusBar
           ELSE /\ statusBar' = ShowError(statusBar, "Fetch failed")
                /\ qm' = done
                /\ UNCHANGED <<isInitialized, reconnectTimers, reconnectOwed>>
    /\ pc' = "idle"
    /\ exc' = <<>>
    /\ UNCHANGED <<target, cfg, lastSnapshot, initRuns, retryTimers, deactivated>>
    /\ UNCHANGED <<staleRuns, loc, parse>>

\* deactivate(); the host disposes the commands and the configuration listener.
Deactivate ==
    /\ pc = "idle"
    /\ ~deactivated
    /\ deactivated' = TRUE
    /\ qm' = StopPolling(qm)
    /\ statusBar' = Dispose(statusBar)
    /\ UNCHANGED <<target, cfg, isInitialized, lastSnapshot, initRuns,
                   retryTimers, reconnectTimers, reconnectOwed, pc, exc>>
    /\ UNCHANGED <<staleRuns, loc, parse>>

\* One turn of the event loop.  The catch clause follows the try block in
\* the same turn, so every other action waits for pc = "idle".
Next ==
    \/ EnvChange
    \/ CmdRefresh
    \/ CmdReconnect
    \/ \E newConfig \in Configs : ConfigChange(newConfig)
    \/ DiscoveryFound
    \/ DiscoveryNotFound
    \/ RetryTimerFires
    \/ ReconnectTimerFires
    \/ PollTick
    \/ \E o \in Outcomes : RequestSettles(o)
    \/ CatchClause
    \/ Deactivate

Spec == Init /\ [][Next]_vars

\* The request promise of a fetch settles (response end, socket error, or the
\* 5000 ms timeout), and the catch clause runs in the turn of the throw.
FairSpec ==
    /\ Spec
    /\ WF_vars(\E o \in Outcomes : RequestSettles(o))
    /\ WF_vars(CatchClause)

(***************************************************************************)
(* The locator followed through one discovery: the activation's call of   *)
(* detectProcessInfo, step by step, and the resumption of                  *)
(* initializeExtension on its result.                                      *)
(***************************************************************************)
orchestrator == <<target, cfg, lastSnapshot, reconnectTimers, reconnectOwed,
                  staleRuns, pc, exc, deactivated, parse>>

\* execAsync('ps aux | grep ...') settles: it rejects (grep found nothing,
\* or ps failed), or resolves with the lines.
PsFails ==
    /\ loc.pc = "ps"
    /\ loc' = OnException([loc EXCEPT !.psFailed = TRUE])
    /\ UNCHANGED <<orchestrator, isInitialized, initRuns, retryTimers, qm, statusBar>>

PsResolves(lines, hint, details) ==
    /\ loc.pc = "ps"
    /\ loc' = AfterPs(loc, lines, hint, details)
    /\ UNCHANGED <<orchestrator, isInitialized, initRuns, retryTimers, qm, statusBar>>

\* findPortsUsingLsof resolves: with [] from its catch clause when lsof
\* failed, else with the ports of the output.
LsofSettles(failed, captured) ==
    /\ loc.pc = "lsof"
    /\ loc' = FindConnectPort(loc, IF failed THEN <<>> ELSE FindPortsUsingLsof(captured))
    /\ UNCHANGED <<orchestrator, isInitialized, initRuns, retryTimers, qm, statusBar>>

\* The probe in flight is answered; nothing listens on port 0.
ProbeSettles(answer) ==
    /\ loc.pc = "probe"
    /\ answer = "status" => loc.probes[Len(loc.probes)].options.port # 0
    /\ loc' = AfterProbe(loc, answer)
    /\ UNCHANGED <<orchestrator, isInitialized, initRuns, retryTimers, qm, statusBar>>

\* initializeExtension resumes with the ProcessInfo.
LocatorFound ==
    /\ loc.pc = "done"
    /\ ~loc.rejected
    /\ loc.result # <<>>
    /\ loc' = [loc EXCEPT !.pc = "returned"]
    /\ initRuns' = initRuns - 1
    /\ qm' = Connect(qm, loc.result[1], cfg)
    /\ isInitialized' = TRUE
    /\ UNCHANGED <<orchestrator, retryTimers, statusBar>>

\* initializeExtension resumes with null.
LocatorNotFound ==
    /\ loc.pc = "done"
    /\ ~loc.rejected
    /\ loc.result = <<>>
    /\ loc' = [loc EXCEPT !.pc = "returned"]
    /\ initRuns' = initRuns - 1
    /\ statusBar' = ShowError(statusBar, "Process not found")
    /\ retryTimers' = retryTimers + 1
    /\ UNCHANGED <<orchestrator, isInitialized, qm>>

LocatorNext ==
    \/ PsFails
    \/ /\ loc.pc = "ps"
       /\ \E lines \in PsOutputs, hint \in BOOLEAN, details \in LineDetails :
             PsResolves(lines, hint, details)
    \/ \E failed \in BOOLEAN, captured \in LsofOutputs : LsofSettles(failed, captured)
    \/ \E answer \in ProbeAnswers : ProbeSettles(answer)
    \/ LocatorFound
    \/ LocatorNotFound

LocatorInit == Init /\ target = <<>>

LocatorSpec == LocatorInit /\ [][LocatorNext]_vars

TypeOK ==
    /\ target \in Targets
    /\ cfg \in Configs
    /\ isInitialized \in BOOLEAN
    /\ initRuns \in 0..MaxChains
    /\ retryTimers \in 0..MaxChains
    /\ reconnectTimers \in 0..MaxChains
    /\ reconnectOwed \in BOOLEAN
    /\ staleRuns \in 0..initRuns
    /\ pc \in {"idle", "catch"}
    /\ deactivated \in BOOLEAN
    /\ Chains(initRuns, retryTimers, reconnectTimers, qm, pc) <= MaxChains

(***************************************************************************)
(* parseResponse's functions applied to one input each.                    *)
(***************************************************************************)
allButParse == <<target, cfg, isInitialized, lastSnapshot, initRuns, retryTimers,
                 reconnectTimers, reconnectOwed, staleRuns, qm, pc, exc,
                 statusBar, deactivated, loc>>

ParsesCredits ==
    /\ parse.stage = "input"
    /\ parse.kind = "credits"
    /\ parse' = [parse EXCEPT !.stage = "done", !.output = PromptCredits(parse.input)]
    /\ UNCHANGED allButParse

MapsModels ==
    /\ parse.stage = "input"
    /\ parse.kind = "models"
    /\ parse' = [parse EXCEPT !.stage = "done",
                              !.output = Models(parse.input.rawModels, parse.input.now)]
    /\ UNCHANGED allButParse

FormatsTime ==
    /\ parse.stage = "input"
    /\ parse.kind = "time"
    /\ parse' = [parse EXCEPT !.stage = "done",
                              !.output = FormatTime(parse.input.resetTime - parse.input.now,
                                                    parse.input.resetTime)]
    /\ UNCHANGED allButParse

FindsEmail ==
    /\ parse.stage = "input"
    /\ parse.kind = "email"
    /\ parse' = [parse EXCEPT !.stage = "done", !.output = Email(parse.input)]
    /\ UNCHANGED allButParse

\* fetchQuota resumes on a parsed body.
ParsesResponse ==
    /\ parse.stage = "input"
    /\ parse.kind = "response"
    /\ parse' = [parse EXCEPT !.stage = "done",
                              !.output = TryBlock(parse.input.data, parse.input.now)]
    /\ UNCHANGED allButParse

ParseNext ==
    \/ ParsesResponse
    \/ ParsesCredits
    \/ FindsEmail
    \/ MapsModels
    \/ FormatsTime

ParseInit ==
    /\ target = <<>>
    /\ cfg \in {c \in Configs : c.enabled /\ c.pollingInterval = 60000}
    /\ Activated
    /\ parse \in ParseInputs

ParseSpec == ParseInit /\ [][ParseNext]_vars

(***************************************************************************)
(* Properties.                                                             *)
(***************************************************************************)
\* The step takes a request out of flight: only RequestSettles does.
RequestLeaves ==
    /\ pc = "idle"
    /\ Len(qm'.requests) < Len(qm.requests)

\* C1: at most one fetch is in flight at any time (the gate is closed exactly
\* while one request is in flight or its catch clause is pending); while a
\* fetch is in progress no step but the settling of its request (so no
\* fetchQuota call of the timer, of startPolling or of the refresh command)
\* issues a request, invokes a callback or reopens the gate; and when the
\* request settles none is left in flight, so the calls made meanwhile were
\* not queued and that fetch is the only one to publish.
C1_SingleFlight ==
    /\ [](Len(qm.requests) + (IF pc = "catch" THEN 1 ELSE 0)
            = (IF qm.isFetching THEN 1 ELSE 0))
    /\ [][(qm.isFetching /\ pc = "idle" /\ ~RequestLeaves)
            => /\ qm'.requests = qm.requests
               /\ qm'.isFetching
               /\ qm'.log.upd = qm.log.upd
               /\ qm'.log.err = qm.log.err
               /\ pc' = pc /\ exc' = exc
               /\ lastSnapshot' = lastSnapshot]_vars
    /\ [][RequestLeaves => qm'.requests = <<>>]_vars

C1_Witness ==
    /\ qm.isFetching
    /\ Len(qm.requests) = 1
    /\ qm.log.skipped

\* The signatures the claims name, read off the message's words.
CarriesReconnectSignature(msg) ==
    \E i \in 1..Len(msg) :
        \/ msg[i] = "ECONNREFUSED"
        \/ i < Len(msg) /\ msg[i] = "status" /\ msg[i + 1] \in {"403", "404"}

\* C2: after the error callback has delivered an error with a reconnect
\* signature, the locator is invoked again after the short delay: until a
\* discovery run has started, the delayed call of initializeExtension is
\* still pending.
C2_ReconnectReinvokesLocator ==
    reconnectOwed => reconnectTimers > 0

\* The handler's own effects on such an error: the timer is stopped, the
\* state is Uninitialized, the display is left alone and the delayed call is
\* scheduled.
ReconnectHandlerEffects ==
    [][(pc = "catch" /\ CarriesReconnectSignature(exc))
         => /\ qm'.pollingTimer = 0 /\ qm'.intervals = <<>>
            /\ ~isInitialized'
            /\ statusBar' = statusBar
            /\ reconnectTimers' = reconnectTimers + 1]_vars

\* C3: when the error callback delivers an error with no reconnect signature,
\* the handler shows the fetch-failure state and changes nothing else: the
\* connection state, the polling timer, the poller's port and token, the
\* cached snapshot and the pending discovery runs and timers stay as they are.
C3_GenericErrorOnlyDisplays ==
    [][(pc = "catch" /\ ~CarriesReconnectSignature(exc))
         => /\ statusBar'.text = "error"
            /\ statusBar'.tooltip = "Fetch failed"
            /\ statusBar'.visible = ~statusBar.disposed
            /\ isInitialized' = isInitialized
            /\ qm'.pollingTimer = qm.pollingTimer
            /\ qm'.intervals = qm.intervals
            /\ qm'.port = qm.port
            /\ qm'.csrfToken = qm.csrfToken
            /\ lastSnapshot' = lastSnapshot
            /\ initRuns' = initRuns
            /\ retryTimers' = retryTimers
            /\ reconnectTimers' = reconnectTimers]_vars

C3_Witness ==
    /\ statusBar.tooltip = "Fetch failed"
    /\ qm.log.phase = "done"
    /\ qm.log.err = 1
    /\ isInitialized
    /\ qm.pollingTimer # 0

\* The failures of an exchange as the claim lists them, and as the code
\* tells them apart.
FailsNon2xx(o) ==
    \/ o.kind \in {"error", "timeout"}
    \/ o.kind = "response" /\ (o.status \notin 200..299 \/ ~IsJson(o.body))

Fails400(o) ==
    \/ o.kind \in {"error", "timeout"}
    \/ o.kind = "response" /\ (o.status >= 400 \/ ~IsJson(o.body))

\* The catch clause delivers the pending error once, with its message, and
\* fetchQuota ends there: nothing is left to throw.
ErrorIsDelivered ==
    /\ [](pc = "catch" => exc # <<>>)
    /\ [][pc = "catch"
            => /\ qm'.log.err = qm.log.err + 1
               /\ qm'.log.upd = qm.log.upd
               /\ pc' = "idle" /\ exc' = <<>>
               /\ ~qm'.isFetching]_vars

C5_ExactlyOneResult ==
    qm.log.phase = "done" => qm.log.upd + qm.log.err = 1

\* C6: when a discovery run ends in not-found the orchestrator is
\* Uninitialized, the error state is shown and one more retry is pending.
C6_NotFoundStaysUninitialized ==
    [][DiscoveryNotFound
         => /\ ~isInitialized'
            /\ statusBar'.text = "error"
            /\ retryTimers' = retryTimers + 1]_vars

\* While not Connected, a discovery run or a delayed trigger of one is pending.
RetryPendingWhileNotConnected ==
    ~isInitialized => initRuns + retryTimers + reconnectTimers > 0

\* C7: a discovery run starts only in state Uninitialized and only while no
\* other discovery run is in progress.
C7_OneDiscoveryAtATime ==
    [][initRuns' > initRuns => (~isInitialized' /\ initRuns = 0)]_vars

\* A discovery run starts only when the orchestrator is not Connected.
DiscoveryOnlyWhenNotConnected ==
    [][initRuns' > initRuns => ~isInitialized']_vars

\* C8: when a discovery run succeeds the poller holds the connect port and
\* the token of that result, the orchestrator is Connected, and polling has
\* been started (a timer of the configured interval, a fetch in progress) if
\* monitoring is enabled and no timer is live otherwise.
C8_DiscoverySuccessConfigures ==
    [][DiscoveryFound
         => /\ qm'.port = target[1].connectPort
            /\ qm'.csrfToken = target[1].csrfToken
            /\ isInitialized'
            /\ IF cfg.enabled
               THEN /\ qm'.pollingTimer = cfg.pollingInterval
                    /\ qm'.intervals = <<cfg.pollingInterval>>
                    /\ qm'.isFetching
               ELSE /\ qm'.pollingTimer = 0
                    /\ qm'.intervals = <<>>
                    /\ qm'.requests = qm.requests]_vars

C8_Witness ==
    /\ isInitialized
    /\ initRuns = 0
    /\ <<[connectPort |-> qm.port, csrfToken |-> qm.csrfToken]>> = target
    /\ qm.pollingTimer = cfg.pollingInterval
    /\ qm.isFetching

\* C9: a configuration change that leaves monitoring disabled stops the
\* polling timer and hides the display; one that leaves it enabled starts a
\* discovery run when the orchestrator is not Connected and restarts polling
\* with the configured interval when it is.
C9_ConfigChange ==
    [][\A c \in Configs :
         ConfigChange(c)
           => IF ~c.enabled
              THEN /\ qm'.pollingTimer = 0
                   /\ qm'.intervals = <<>>
                   /\ ~statusBar'.visible
                   /\ initRuns' = initRuns
              ELSE IF isInitialized
                   THEN /\ qm'.pollingTimer = c.pollingInterval
                        /\ qm'.intervals = <<c.pollingInterval>>
                        /\ initRuns' = initRuns
                   ELSE /\ initRuns' = initRuns + 1
                        /\ qm' = qm]_vars

C9_Witness ==
    /\ ~cfg.enabled
    /\ ~statusBar.visible
    /\ ~statusBar.disposed
    /\ isInitialized
    /\ qm.pollingTimer = 0

\* C10: with polling stopped no interval timer is live, so the timer makes
\* no fetchQuota call until startPolling sets one; stopping leaves the
\* requests in flight alone, and a request that settles still ends in a
\* callback: the update callback at once, or the error callback from the
\* catch clause.
C10_StopKeepsInFlightFetch ==
    /\ [](qm.pollingTimer = 0 => qm.intervals = <<>>)
    /\ [][PollTick => qm.pollingTimer # 0]_vars
    /\ [][(qm.pollingTimer # 0 /\ qm'.pollingTimer = 0)
            => qm'.requests = qm.requests]_vars
    /\ [][RequestLeaves => (qm'.log.upd = 1 \/ pc' = "catch")]_vars
    /\ [][pc = "catch" => qm'.log.err = qm.log.err + 1]_vars

C10_Witness ==
    /\ qm.pollingTimer = 0
    /\ qm.requests # <<>>
    /\ ~isInitialized
    /\ cfg.enabled

\* C11: the cached snapshot is the snapshot the poller published last, and
\* is absent before the first one; a fetch that publishes stores its snapshot
\* whole even when the display update that follows throws; and no step that
\* publishes nothing (the catch clause with either kind of error, a command,
\* a configuration change, a discovery result, a timer, deactivation)
\* changes it.
C11_CacheIsLastPublished ==
    /\ [](lastSnapshot = qm.published)
    /\ [](qm.published = <<>> => lastSnapshot = <<>>)
    /\ [][qm'.log.upd > qm.log.upd
            => /\ lastSnapshot' # <<>>
               /\ lastSnapshot'[1].body \in Bodies
               /\ lastSnapshot' = qm'.published]_vars
    /\ [][qm'.log.upd <= qm.log.upd => lastSnapshot' = lastSnapshot]_vars

\* The snapshot is cached although the display update threw on it, and the
\* error handler has run since.
C11_Witness ==
    /\ lastSnapshot # <<>>
    /\ lastSnapshot[1].body = "nolabel"
    /\ qm.log.phase = "done"
    /\ qm.log.err = 1
    /\ qm.log.upd = 1

\* No probe of the run was answered with an HTTP status.
NoCandidateResponded ==
    \A i \in DOMAIN loc.probes : loc.probes[i].answer # "status"

\* C12: the promise of detectProcessInfo is never rejected, and it resolves
\* to null when the process list could not be had, when no line was
\* selected, when the selected line declares no port, and when no probe was
\* answered.
C12_LocatorNeverThrows ==
    /\ ~loc.rejected
    /\ loc.pc \in {"done", "returned"}
         => /\ loc.psFailed => loc.result = <<>>
            /\ loc.targetLine = <<>> => loc.result = <<>>
            /\ (loc.targetLine # <<>> /\ loc.targetLine[1].declared = <<>>)
                 => loc.result = <<>>
            /\ NoCandidateResponded => loc.result = <<>>

\* The process list could not be had; initializeExtension has resumed with
\* null and scheduled its retry.
C12_Witness ==
    /\ loc.pc = "returned"
    /\ loc.psFailed
    /\ loc.caught
    /\ loc.result = <<>>
    /\ retryTimers = 1

\* C18: every probe of the locator and every request of the poller is
\* addressed to 127.0.0.1, whichever ports were declared and discovered
\* and wherever the token came from.
C18_OnlyLocalhost ==
    /\ \A i \in DOMAIN loc.probes : loc.probes[i].options.hostname = "127.0.0.1"
    /\ \A i \in DOMAIN qm.requests : qm.requests[i].hostname = "127.0.0.1"

\* Three ports were probed, the third answered, and the poller's first
\* request to it is in flight.
C18_Witness ==
    /\ Len(loc.probes) = 3
    /\ loc.probes[3].answer = "status"
    /\ qm.requests # <<>>
    /\ qm.requests[1].port = loc.probes[3].options.port
    /\ qm.requests[1].csrfToken = FirstUuid

\* The order of candidates as the claim gives it: the discovered ports, then
\* the declared port and its offsets that were not discovered.
ExpectedOrder(declared, discovered) ==
    discovered \o SelectSeq(<<declared, declared + 1, declared - 1,
                              declared + 2, declared + 3>>,
                            LAMBDA p : \A i \in DOMAIN discovered : discovered[i] # p)

\* The ports probed so far are the first of the expected order, each once;
\* every probe before the last got an error or the timeout; a result
\* carries the port of the last probe, which was answered.
ProbesInOrder ==
    LET expected == ExpectedOrder(loc.extensionPort, loc.discoveredPorts)
        n == Len(loc.probes)
    IN  loc.portsToTry # <<>>
          => /\ n <= Len(expected)
             /\ \A i \in 1..n : loc.probes[i].options.port = expected[i]
             /\ \A i, j \in 1..n :
                    loc.probes[i].options.port = loc.probes[j].options.port => i = j
             /\ \A i \in 1..(n - 1) : loc.probes[i].answer \in {"error", "timeout"}
             /\ loc.result # <<>>
                  => /\ loc.probes[n].answer = "status"
                     /\ loc.result[1].connectPort = loc.probes[n].options.port

\* C20: the probes follow the expected order, the first answered candidate
\* is selected, and the search ends in not-found only after every
\* candidate has been probed and none has answered.
C20_ProbeOrderAndSelection ==
    /\ ProbesInOrder
    /\ (loc.portsToTry # <<>> /\ loc.pc \in {"done", "returned"} /\ loc.result = <<>>)
         => /\ NoCandidateResponded
            /\ Len(loc.probes)
                 = Len(ExpectedOrder(loc.extensionPort, loc.discoveredPorts))

\* What holds of the end of the search: not-found means no probe was
\* answered, and either every candidate was probed or the next one is no
\* port number, on which https.request threw.
NotFoundAfterAllOrInvalidPort ==
    (loc.portsToTry # <<>> /\ loc.pc \in {"done", "returned"} /\ loc.result = <<>>)
      => /\ NoCandidateResponded
         /\ LET expected == ExpectedOrder(loc.extensionPort, loc.discoveredPorts)
                n == Len(loc.probes)
            IN  \/ n = Len(expected)
                \/ n < Len(expected) /\ ~ValidPort(expected[n + 1]) /\ loc.caught

\* The reconnect command's own effects: the timer is stopped, the state is
\* Uninitialized and one more discovery run is in progress.
ReconnectCommandEffects ==
    [][CmdReconnect
         => /\ qm'.pollingTimer = 0 /\ qm'.intervals = <<>>
            /\ ~isInitialized'
            /\ initRuns' = initRuns + 1]_vars

\* C17: the reconnect command stops the timer, resets the state and starts
\* a discovery run, and from then on the poller is configured only from
\* runs that started after the command.
C17_ReconnectUsesFreshDiscovery ==
    /\ ReconnectCommandEffects
    /\ [][DiscoveryFound => staleRuns' = staleRuns]_vars


(***************************************************************************)
(* The model entries of a response and their ModelQuota.                   *)
(***************************************************************************)
ModelsMapped == parse.stage = "done" /\ parse.kind = "models"

\* The entries of the response that are mapped, in the order of the output.
KeptEntries == SelectSeq(parse.input.rawModels, LAMBDA m : m.quotaInfo # <<>>)

\* C13: a model entry whose quotaInfo has no remainingFraction gives a
\* ModelQuota with remainingFraction = 0 and isNA = TRUE, unless its status
\* is EXHAUSTED, and then isNA = FALSE.
C13_AbsentFractionIsNotApplicable ==
    ModelsMapped =>
        \A i \in 1..Len(KeptEntries) :
            KeptEntries[i].quotaInfo[1].remainingFraction = <<>> =>
                /\ parse.output[i].remainingFraction = 0
                /\ parse.output[i].isNA = (KeptEntries[i].quotaInfo[1].status # "EXHAUSTED")

\* What parseResponse does for them: 0, exhausted and never not applicable.
AbsentFractionIsExhausted ==
    ModelsMapped =>
        /\ Len(parse.output) = Len(KeptEntries)
        /\ \A i \in 1..Len(KeptEntries) :
              /\ ~parse.output[i].isNA
              /\ KeptEntries[i].quotaInfo[1].remainingFraction = <<>> =>
                    /\ parse.output[i].remainingFraction = 0
                    /\ parse.output[i].isExhausted

\* C14: isExhausted is TRUE exactly when the response's remainingFraction
\* is at most 0.001 or the entry's status is EXHAUSTED.
C14_ExhaustedExactly ==
    ModelsMapped =>
        \A i \in 1..Len(KeptEntries) :
            LET quotaInfo == KeptEntries[i].quotaInfo[1]
            IN  parse.output[i].isExhausted
                    <=> \/ /\ quotaInfo.remainingFraction # <<>>
                           /\ quotaInfo.remainingFraction[1] <= 10
                        \/ quotaInfo.status = "EXHAUSTED"

\* It is so for the entries that have a remainingFraction.
ExhaustedExactlyWhenPresent ==
    ModelsMapped =>
        \A i \in 1..Len(KeptEntries) :
            LET quotaInfo == KeptEntries[i].quotaInfo[1]
            IN  quotaInfo.remainingFraction # <<>> =>
                    (parse.output[i].isExhausted
                        <=> \/ quotaInfo.remainingFraction[1] <= 10
                            \/ quotaInfo.status = "EXHAUSTED")

\* C19: every ModelQuota has remainingFraction within [0, 1] and
\* remainingPercentage = remainingFraction * 100 within [0, 100].
C19_FractionWithinUnit ==
    ModelsMapped =>
        \A i \in 1..Len(parse.output) :
            /\ parse.output[i].remainingFraction \in 0..10000
            /\ parse.output[i].remainingPercentage = parse.output[i].remainingFraction * 100
            /\ parse.output[i].remainingPercentage \in 0..1000000

\* The fraction of the response is passed on as it is.
FractionPassedOn ==
    ModelsMapped =>
        \A i \in 1..Len(KeptEntries) :
            LET quotaInfo == KeptEntries[i].quotaInfo[1]
            IN  quotaInfo.remainingFraction # <<>> =>
                    /\ parse.output[i].remainingFraction = quotaInfo.remainingFraction[1]
                    /\ parse.output[i].remainingPercentage
                           = quotaInfo.remainingFraction[1] * 100


(***************************************************************************)
(* The prompt credits of a response.  The percentages are doubles; they    *)
(* are compared with the exact quotients by whole-number arithmetic.       *)
(***************************************************************************)
CreditsParsed == parse.stage = "done" /\ parse.kind = "credits"

\* The response has a monthly quota above 0 and an available-credits figure.
HasMonthlyAndAvailable(planStatus) ==
    /\ planStatus # <<>>
    /\ planStatus[1].availablePromptCredits # <<>>
    /\ planStatus[1].planInfo # <<>>
    /\ planStatus[1].planInfo[1].monthlyPromptCredits # <<>>
    /\ planStatus[1].planInfo[1].monthlyPromptCredits[1] > 0

\* bits * 2^n, rounded down.
Shift(bits, n) ==
    IF n >= 0 THEN (IF bits = <<>> THEN <<>> ELSE Zeros(n) \o bits)
    ELSE SubSeq(bits, 1 - n, Len(bits))

\* |a - b|
Distance(a, b) ==
    IF LessEq(a, b) THEN Normalized(Minus(b, a, 0)) ELSE Normalized(Minus(a, b, 0))

\* The double f is num / den, den > 0, within a relative error of 2^-51:
\* | mant * den - |num| * 2^-exp | <= |num| * 2^(-exp - 51).
CloseTo(f, num, den) ==
    IF num = 0 THEN f = Zero
    ELSE LET magnitude == Bits(IF num < 0 THEN -num ELSE num)
         IN  /\ f # Zero
             /\ f.neg = (num < 0)
             /\ f.exp < 0
             /\ LessEq(Distance(TimesSmall(f.mant, den, 0), Shift(magnitude, -f.exp)),
                       Shift(magnitude, -f.exp - 51))

\* | u + r - 100 | <= (|u| + |r|) * 2^-51 for doubles u and r >= 0, as
\* whole numbers of 2^e, e the lower exponent of the two.
SumCloseTo100(u, r) ==
    LET e == IF u = Zero THEN r.exp
             ELSE IF r = Zero \/ u.exp < r.exp THEN u.exp ELSE r.exp
        U == IF u = Zero THEN <<>> ELSE Zeros(u.exp - e) \o u.mant
        R == IF r = Zero THEN <<>> ELSE Zeros(r.exp - e) \o r.mant
        sum == IF u # Zero /\ u.neg THEN Distance(R, U) ELSE Plus(U, R, 0)
    IN  /\ e < 0
        /\ r = Zero \/ ~r.neg
        /\ u # Zero /\ u.neg => LessEq(U, R)
        /\ LessEq(Distance(sum, Shift(Bits(100), -e)), Shift(Plus(U, R, 0), -51))

\* C15 (as amended): the prompt credits are present if and only if the
\* monthly quota is above 0 and an available-credits figure is defined; when
\* present, usedPercentage is (monthly - available) / monthly * 100 and
\* remainingPercentage is available / monthly * 100, each within a relative
\* error of 2^-51, and their sum is 100 within
\* (|usedPercentage| + |remainingPercentage|) * 2^-51.
C15_CreditsWithinRounding ==
    CreditsParsed =>
        /\ parse.output # <<>> <=> HasMonthlyAndAvailable(parse.input)
        /\ parse.output # <<>> =>
              LET monthly == parse.input[1].planInfo[1].monthlyPromptCredits[1]
                  available == parse.input[1].availablePromptCredits[1]
                  credits == parse.output[1]
              IN  /\ credits.monthly = monthly
                  /\ credits.available = available
                  /\ CloseTo(credits.usedPercentage, 100 * (monthly - available), monthly)
                  /\ CloseTo(credits.remainingPercentage, 100 * available, monthly)
                  /\ SumCloseTo100(credits.usedPercentage, credits.remainingPercentage)

\* Credits are present and the sum of their percentages is not the double 100.
C15_Witness ==
    /\ CreditsParsed
    /\ parse.output # <<>>
    /\ FloatPlus(parse.output[1].usedPercentage, parse.output[1].remainingPercentage)
           # FloatOf(100)

\* C15 (as stated): the prompt credits are present if and only if the
\* monthly quota is above 0 and an available-credits figure is defined, and
\* when present usedPercentage + remainingPercentage = 100.
C15_SumIsExactly100 ==
    CreditsParsed =>
        /\ parse.output # <<>> <=> HasMonthlyAndAvailable(parse.input)
        /\ parse.output # <<>> =>
              FloatPlus(parse.output[1].usedPercentage,
                        parse.output[1].remainingPercentage) = FloatOf(100)


(***************************************************************************)
(* The countdown of a time until reset.                                    *)
(***************************************************************************)
TimeFormatted == parse.stage = "done" /\ parse.kind = "time"

TimeUntilReset == parse.input.resetTime - parse.input.now

\* The whole minutes that have begun in ms > 0 milliseconds.
MinutesBegun(ms) == CHOOSE k \in 1..35791 : 60000 * (k - 1) < ms /\ ms <= 60000 * k

MinutesOnly(text) == \E k \in 0..59 : text = ToString(k) \o "m"

HoursAndMinutes(text) ==
    \E h \in 0..23, k \in 0..59 : text = ToString(h) \o "h " \o ToString(k) \o "m"

DaysAndHours(text) ==
    \E d \in 1..24, h \in 0..23 : text = ToString(d) \o "d " \o ToString(h) \o "h"

\* C16 (as amended): t <= 0 gives "Ready" without a date; otherwise, with M
\* the minutes of t rounded up to the next whole minute, M < 60 gives "Mm",
\* M < 24 * 60 gives the hours and the minutes of M, and any larger M its
\* days and hours, each followed by the date of the reset.
C16_CountdownOfMinutesBegun ==
    TimeFormatted =>
        IF TimeUntilReset <= 0
        THEN parse.output = [text |-> "Ready", date |-> <<>>]
        ELSE LET M == MinutesBegun(TimeUntilReset)
             IN  /\ parse.output.date = <<parse.input.resetTime>>
                 /\ M < 60 => parse.output.text = ToString(M) \o "m"
                 /\ M >= 60 /\ M < 1440 =>
                       parse.output.text
                           = ToString(M \div 60) \o "h " \o ToString(M % 60) \o "m"
                 /\ M >= 1440 =>
                       parse.output.text
                           = ToString(M \div 1440) \o "d "
                               \o ToString((M % 1440) \div 60) \o "h"

\* A time of more than 59 and less than 60 minutes is shown as an hour.
C16_Witness ==
    /\ TimeFormatted
    /\ TimeUntilReset > 59 * 60000
    /\ TimeUntilReset < 60 * 60000
    /\ parse.output.text = "1h 0m"
    /\ parse.output.date = <<parse.input.resetTime>>

\* C16 (as stated): t <= 0 gives "Ready"; a t under 60 minutes is rendered
\* as minutes only (45 minutes: "45m"), a t under 24 hours as hours and
\* minutes (90 minutes: "1h 30m"), a longer one as days and hours (25 hours:
\* "1d 1h"), each followed by the date of the reset.
C16_CountdownOfDuration ==
    TimeFormatted =>
        /\ TimeUntilReset <= 0 => parse.output.text = "Ready"
        /\ TimeUntilReset > 0 =>
              /\ parse.output.date = <<parse.input.resetTime>>
              /\ IF TimeUntilReset < 60 * 60000 THEN MinutesOnly(parse.output.text)
                 ELSE IF TimeUntilReset < 24 * 60 * 60000
                      THEN HoursAndMinutes(parse.output.text)
                      ELSE DaysAndHours(parse.output.text)
        /\ TimeUntilReset = 45 * 60000 => parse.output.text = "45m"
        /\ TimeUntilReset = 90 * 60000 => parse.output.text = "1h 30m"
        /\ TimeUntilReset = 25 * 60 * 60000 => parse.output.text = "1d 1h"

\* The examples of the countdown are as stated.
CountdownExamples ==
    TimeFormatted =>
        /\ TimeUntilReset = 45 * 60000 => parse.output.text = "45m"
        /\ TimeUntilReset = 90 * 60000 => parse.output.text = "1h 30m"
        /\ TimeUntilReset = 25 * 60 * 60000 => parse.output.text = "1d 1h"


(***************************************************************************)
(* The failure classes of a fetch and the reconnect.                       *)
(***************************************************************************)
\* The fetch whose error is pending failed by a refused connection or was
\* answered with HTTP 403 or 404.
ReconnectFailureClass ==
    \/ qm.log.status = 0 /\ exc = SocketErrorMessage("ECONNREFUSED")
    \/ qm.log.status \in {403, 404}

\* C21: a fetch that fails in any way but a refused connection, HTTP 403 or
\* HTTP 404 (the timeout, invalid JSON, another socket error, another error
\* status with any body) does not stop polling, does not reset the state to
\* Uninitialized and does not bring a new discovery about.
C21_ReconnectOnlyOnThreeClasses ==
    [][(pc = "catch" /\ ~ReconnectFailureClass)
         => /\ qm'.pollingTimer = qm.pollingTimer
            /\ qm'.intervals = qm.intervals
            /\ isInitialized' = isInitialized
            /\ reconnectTimers' = reconnectTimers
            /\ initRuns' = initRuns]_vars


(***************************************************************************)
(* The selection of the process line.                                      *)
(***************************************************************************)
ListRead == ~loc.psFailed /\ loc.pc # "ps"

\* With a hint and a line of the workspace listed, a line of the workspace
\* is selected; otherwise a line with a port flag, if one is listed, and
\* none if none is.
SelectionAsStated ==
    ListRead =>
        IF loc.hint /\ loc.listed.workspace
        THEN loc.targetLine # <<>> /\ loc.targetLine[1].workspace
        ELSE IF loc.listed.flag
             THEN loc.targetLine # <<>> /\ loc.targetLine[1].flag
             ELSE loc.targetLine = <<>>

\* The run ended in not-found for lack of a declared port: no line was
\* selected, or the selected line declares none.
NoDeclaredPort ==
    /\ ListRead
    /\ loc.pc \in {"done", "returned"}
    /\ loc.targetLine = <<>> \/ loc.targetLine[1].declared = <<>>

\* C22: with a hint a line of the workspace is selected, with no such line
\* or no hint a line with a port flag, so the run ends in not-found for lack
\* of a declared port only when no listed line has a port flag with its
\* number.
C22_SelectionAndDeclaredPort ==
    /\ SelectionAsStated
    /\ NoDeclaredPort => ~loc.listed.declared

\* What holds of it: the run ends so only when the line of the workspace
\* that the hint selected declares no port, or the first line with a port
\* flag declares none, or no line has a port flag.
NoDeclaredPortOfSelectedLine ==
    NoDeclaredPort =>
        /\ loc.result = <<>>
        /\ \/ ~loc.listed.flag
           \/ loc.hint /\ loc.targetLine # <<>> /\ loc.targetLine[1].workspace
           \/ loc.targetLine # <<>> /\ loc.targetLine[1].flag


(***************************************************************************)
(* The token of a located ProcessInfo.                                     *)
(***************************************************************************)
Located == loc.pc \in {"done", "returned"} /\ loc.result # <<>>

\* The characters of chars as one string.
RECURSIVE Joined(_)
Joined(chars) == IF chars = <<>> THEN "" ELSE Head(chars) \o Joined(Tail(chars))

\* The longest run of letters, digits and hyphens that chars starts with.
LeadingRun(chars) ==
    LET n == CHOOSE k \in 0..Len(chars) :
                 /\ \A i \in 1..k : chars[i] \in TokenCharacters
                 /\ k < Len(chars) => chars[k + 1] \notin TokenCharacters
    IN  Joined(SubSeq(chars, 1, n))

\* A run that found a port always yields a ProcessInfo, with a token that is
\* not empty.
TokenNeverMissing ==
    /\ Located => loc.result[1].csrfToken # ""
    /\ (loc.pc \in {"done", "returned"} /\ ~NoCandidateResponded) => loc.result # <<>>

\* C23 (as amended): the token is the leading run of letters, digits and
\* hyphens of the token flag's value when the flag is there with such a run,
\* otherwise the first UUID of the line, otherwise the placeholder; it is
\* never empty and a run that found a port never ends in not-found.
C23_TokenOfLeadingRun ==
    /\ TokenNeverMissing
    /\ Located =>
          LET details == loc.details[1]
              token == loc.result[1].csrfToken
          IN  IF details.tokenFlag # <<>> /\ LeadingRun(details.tokenFlag[1]) # ""
              THEN token = LeadingRun(details.tokenFlag[1])
              ELSE IF details.uuid THEN token = FirstUuid
              ELSE token = "antigravity-quota-monitor"

\* The flag's value has another character inside and the token is the part
\* before it.
C23_Witness ==
    /\ Located
    /\ loc.details[1].tokenFlag = << <<"a", "b", "_", "1">> >>
    /\ loc.result[1].csrfToken = "ab"

\* C23 (as stated): the token is the value of the token flag when the flag
\* is there, otherwise the first UUID of the line, otherwise the
\* placeholder; it is never empty and a run that found a port never ends in
\* not-found.
C23_TokenOfFlagValue ==
    /\ TokenNeverMissing
    /\ Located =>
          LET details == loc.details[1]
              token == loc.result[1].csrfToken
          IN  IF details.tokenFlag # <<>>
              THEN token = Joined(details.tokenFlag[1])
              ELSE IF details.uuid THEN token = FirstUuid
              ELSE token = "antigravity-quota-monitor"

(***************************************************************************)
(* The email of a snapshot.                                                *)
(***************************************************************************)
EmailFound == parse.stage = "done" /\ parse.kind = "email"

NonEmpty(value) == value # <<>> /\ value[1] # ""

\* The values at the paths in the order of the lookup: the email of
\* userStatus, of its user, of its userProfile, of its user_profile, then
\* of the response's user and userProfile and of its user_status' user.
EmailPaths(data) ==
    << data.userStatus.email,
       IF data.userStatus.user = <<>> THEN <<>> ELSE data.userStatus.user[1].email,
       IF data.userStatus.userProfile = <<>> THEN <<>>
       ELSE data.userStatus.userProfile[1].email,
       IF data.userStatus.user_profile = <<>> THEN <<>>
       ELSE data.userStatus.user_profile[1].email,
       IF data.user = <<>> THEN <<>> ELSE data.user[1].email,
       IF data.userProfile = <<>> THEN <<>> ELSE data.userProfile[1].email,
       IF data.user_status = <<>> \/ data.user_status[1].user = <<>> THEN <<>>
       ELSE data.user_status[1].user[1].email >>

\* C24: the email is the first non-empty value along the paths: the email
\* of userStatus, then user.email, then userProfile.email, then the
\* snake_case variants; no later path wins over an earlier one that has a
\* value; and when no path has a value the snapshot has no email.
C24_FirstNonEmptyEmail ==
    EmailFound =>
        LET paths == EmailPaths(parse.input)
            found == { i \in DOMAIN paths : NonEmpty(paths[i]) }
        IN  IF found = {}
            THEN ~NonEmpty(parse.output)
            ELSE /\ NonEmpty(parse.output)
                 /\ \E i \in found :
                       /\ parse.output = paths[i]
                       /\ \A j \in found : i <= j

\* userStatus.email is empty, user and userProfile both have an email, and
\* the email is the one of user.
C24_Witness ==
    /\ EmailFound
    /\ parse.input.userStatus.email = <<"">>
    /\ parse.input.userStatus.user = <<[email |-> <<"user">>]>>
    /\ parse.input.userStatus.userProfile = <<[email |-> <<"userProfile">>]>>
    /\ parse.output = <<"user">>

(***************************************************************************)
(* Responses with missing or partial fields.                               *)
(***************************************************************************)
ResponseParsed == parse.stage = "done" /\ parse.kind = "response"

\* The model entries of the response (none without the configuration data
\* or its list).
ListedModels(data) ==
    LET configData == data.userStatus[1].cascadeModelConfigData
    IN  IF configData = <<>> \/ configData[1].clientModelConfigs = <<>> THEN <<>>
        ELSE configData[1].clientModelConfigs[1]

\* The fields that the response has are as the server defines them: every
\* remainingFraction is within [0, 1].
FieldsWellFormed(data) ==
    /\ data.userStatus # <<>>
    /\ \A i \in DOMAIN ListedModels(data) :
          LET m == ListedModels(data)[i]
          IN  (m.quotaInfo # <<>> /\ m.quotaInfo[1].remainingFraction # <<>>)
                => m.quotaInfo[1].remainingFraction[1] \in 0..10000

\* C25: a response without plan data, without model configuration data,
\* with entries without remainingFraction or without quotaInfo gives a
\* published snapshot and no error; without plan data the prompt credits
\* are omitted; and the models of the snapshot are the entries that have a
\* quotaInfo, in the order of the response.
C25_PartialResponseStillPublished ==
    (ResponseParsed /\ FieldsWellFormed(parse.input.data)) =>
        LET userStatus == parse.input.data.userStatus[1]
            kept == SelectSeq(ListedModels(parse.input.data),
                              LAMBDA m : m.quotaInfo # <<>>)
        IN  /\ parse.output.published # <<>>
            /\ ~parse.output.error
            /\ (userStatus.planStatus = <<>> \/ userStatus.planStatus[1].planInfo = <<>>)
                 => parse.output.published[1].promptCredits = <<>>
            /\ LET models == parse.output.published[1].models
               IN  /\ Len(models) = Len(kept)
                   /\ \A i \in DOMAIN kept :
                         /\ models[i].label = kept[i].label
                         /\ models[i].resetTime = kept[i].quotaInfo[1].resetTime
                         /\ kept[i].quotaInfo[1].remainingFraction = <<>>
                              => models[i].remainingFraction = 0

\* A response without plan data whose first entry has no quotaInfo and
\* whose second has no remainingFraction: the snapshot has the second alone.
C25_Witness ==
    /\ ResponseParsed
    /\ parse.input.data.userStatus # <<>>
    /\ parse.input.data.userStatus[1].planStatus = <<>>
    /\ Len(ListedModels(parse.input.data)) = 2
    /\ ListedModels(parse.input.data)[1] = [label |-> <<"Gemini">>, quotaInfo |-> <<>>]
    /\ ListedModels(parse.input.data)[2].label = <<"Claude">>
    /\ ListedModels(parse.input.data)[2].quotaInfo # <<>>
    /\ ListedModels(parse.input.data)[2].quotaInfo[1].remainingFraction = <<>>
    /\ ~parse.output.error
    /\ parse.output.published # <<>>
    /\ parse.output.published[1].promptCredits = <<>>
    /\ Len(parse.output.published[1].models) = 1
    /\ parse.output.published[1].models[1].label = <<"Claude">>

\* A response without userStatus gives no snapshot and an error, and so
\* does in the display a remainingFraction above 1.
MalformedResponseIsAnError ==
    ResponseParsed =>
        /\ parse.input.data.userStatus = <<>>
             => parse.output.published = <<>> /\ parse.output.error
        /\ (parse.input.data.userStatus # <<>> /\ ~FieldsWellFormed(parse.input.data))
             => parse.output.published # <<>> /\ parse.output.error


(***************************************************************************)
(* The polling timer.                                                      *)
(***************************************************************************)
\* C26: at most one interval timer is live at any time, the one of the
\* handle the poller holds; a step that starts polling (a discovery that
\* succeeds with monitoring enabled, a configuration change while Connected
\* and enabled) leaves the timer of the interval it was called with alone
\* live; and no other step makes a timer live.
C26_OnePollingTimer ==
    /\ [](Len(qm.intervals) <= 1)
    /\ [](qm.intervals # <<>> => qm.intervals = <<qm.pollingTimer>>)
    /\ [][(DiscoveryFound /\ cfg.enabled)
            => qm'.intervals = <<cfg.pollingInterval>>]_vars
    /\ [][\A c \in Configs :
            (ConfigChange(c) /\ c.enabled /\ isInitialized)
              => qm'.intervals = <<c.pollingInterval>>]_vars
    /\ [][qm'.intervals # qm.intervals
            => \/ qm'.intervals = <<>>
               \/ DiscoveryFound /\ cfg.enabled
               \/ \E c \in Configs : ConfigChange(c) /\ c.enabled /\ isInitialized]_vars

\* Polling was started again during the first fetch, with the other
\* interval: one timer is live, of that interval, and the fetchQuota call of
\* the second startPolling was suppressed.
C26_Witness ==
    /\ isInitialized
    /\ qm.intervals = <<120000>>
    /\ qm.pollingTimer = 120000
    /\ cfg.pollingInterval = 120000
    /\ qm.log.skipped
    /\ qm.log.phase = "running"


C28_PollingImpliesConnectedAndEnabled ==
    qm.intervals # <<>> => (isInitialized /\ cfg.enabled)


\* The timer is live while a discovery run that began before the last
\* reconnect command is still in flight.
C28_Witness ==
    /\ qm.intervals # <<>>
    /\ isInitialized
    /\ cfg.enabled
    /\ initRuns > 0
    /\ staleRuns > 0


(***************************************************************************)
(* After deactivate.                                                       *)
(***************************************************************************)
\* C29: once deactivate has run no polling timer is live, and no step
\* starts a discovery run or issues a request, whatever was pending or in
\* flight when deactivate ran.
C29_NothingStartsAfterDeactivate ==
    /\ [](deactivated => qm.intervals = <<>>)
    /\ [][deactivated => /\ initRuns' <= initRuns
                         /\ Len(qm'.requests) <= Len(qm.requests)]_vars

\* What deactivate does do: in the turn of deactivate the timer is stopped,
\* and afterwards no command or configuration handler runs.
DeactivateStopsTimer ==
    /\ [][Deactivate => qm'.intervals = <<>> /\ qm'.pollingTimer = 0]_vars
    /\ [][deactivated => ~(CmdRefresh \/ CmdReconnect
                            \/ \E c \in Configs : ConfigChange(c))]_vars


(***************************************************************************)
(* The fetch of startPolling.                                              *)
(***************************************************************************)
\* A step that calls startPolling on a configured poller.
PollingStarts ==
    \/ DiscoveryFound /\ cfg.enabled
    \/ \E c \in Configs : ConfigChange(c) /\ c.enabled /\ isInitialized

\* The request uses the port and token the poller is configured with.
OfCurrentConnection(request, q) ==
    /\ request.port = q.port
    /\ request.csrfToken = q.csrfToken

\* C30: a step that starts polling leaves a request outstanding that uses
\* the port and token the poller is configured with after the step, and a
\* result is published only from a request that used the port and token
\* the poller is configured with at that moment.
C30_FetchOfCurrentConnection ==
    /\ [][PollingStarts
            => /\ qm'.requests # <<>>
               /\ OfCurrentConnection(qm'.requests[Len(qm'.requests)], qm')]_vars
    /\ [][((\E o \in Outcomes : RequestSettles(o)) /\ qm'.log.upd = qm.log.upd + 1)
            => OfCurrentConnection(Head(qm.requests), qm)]_vars

\* What startPolling does do: with the gate open it issues a request with
\* the current port and token in the same turn; with the gate closed it
\* issues nothing and the request in flight stays as it was.
StartPollingFetchesWhenGateOpen ==
    /\ [][(PollingStarts /\ ~qm.isFetching)
            => qm'.requests = <<RequestOptions(qm')>>]_vars
    /\ [][(PollingStarts /\ qm.isFetching)
            => qm'.requests = qm.requests /\ qm'.log.skipped]_vars


(***************************************************************************)
(* Delayed discovery triggers.                                             *)
(***************************************************************************)
\* C31: at any time at most one delayed discovery trigger is pending,
\* counting the 10 s retry timers and the 1 s reconnect timers together.
C31_OneDelayedTrigger ==
    retryTimers + reconnectTimers <= 1

\* What the code does do: a run that finds no process schedules one retry
\* timer, a connection-invalidating fetch error schedules one reconnect
\* timer, and nothing else schedules a delayed trigger; a timer that fires
\* is gone.
OneTimerPerFailure ==
    /\ [][DiscoveryNotFound => /\ retryTimers' = retryTimers + 1
                               /\ reconnectTimers' = reconnectTimers]_vars
    /\ [][(CatchClause /\ IsReconnectError(exc))
            => /\ reconnectTimers' = reconnectTimers + 1
               /\ retryTimers' = retryTimers]_vars
    /\ [][(retryTimers' + reconnectTimers' > retryTimers + reconnectTimers)
            => (DiscoveryNotFound \/ (CatchClause /\ IsReconnectError(exc)))]_vars


(***************************************************************************)
(* The display while monitoring is disabled.                               *)
(***************************************************************************)
\* C32: a configuration change that disables monitoring hides the display,
\* and while monitoring stays disabled no step makes a hidden display
\* visible.
C32_HiddenWhileDisabled ==
    /\ [][\A c \in Configs : (ConfigChange(c) /\ ~c.enabled)
                               => ~statusBar'.visible]_vars
    /\ [][(~cfg.enabled /\ ~cfg'.enabled /\ ~statusBar.visible)
            => ~statusBar'.visible]_vars

\* What the code does do: the disabling change hides the display, and a
\* fetch that completes with a snapshot while monitoring is disabled leaves
\* it hidden, as do the timers and a discovery that succeeds.
SnapshotKeepsDisplayHidden ==
    /\ [][\A c \in Configs : (ConfigChange(c) /\ ~c.enabled)
                               => ~statusBar'.visible]_vars
    /\ [][(/\ ~cfg.enabled /\ ~cfg'.enabled /\ ~statusBar.visible
           /\ ~DiscoveryNotFound
           /\ ~(CatchClause /\ ~IsReconnectError(exc)))
            => ~statusBar'.visible]_vars

====
